---- MODULE Spec2Model ----
(***************************************************************************)
(* A model of dw.py: the URL registry, the URL classifier, the filename    *)
(* sanitizer and the two update handlers, process_url and handle_download, *)
(* as coroutines that interleave at their await points.                    *)
(***************************************************************************)
EXTENDS Integers, Sequences, FiniteSets, TLC

(***************************************************************************)
(* Text.  A Python str is a sequence of one-character strings; Ascii lists *)
(* the code points 32..126 in order ("U+0060" stands for the grave accent). *)
(***************************************************************************)
Ascii ==
  <<" ","!","\"","#","$","%","&","'","(",")","*","+",",","-",".","/","0","1","2","3","4","5","6","7","8","9",":",";","<","=",">","?","@","A","B","C","D","E","F","G","H","I","J","K","L","M","N","O","P","Q","R","S","T","U","V","W","X","Y","Z","[","\\","]","^","_","U+0060","a","b","c","d","e","f","g","h","i","j","k","l","m","n","o","p","q","r","s","t","u","v","w","x","y","z","{","|","}","~">>

\* A lone surrogate code point: str.encode('utf-8') raises on it.
Surrogate == "U+D800"

IsAscii(c) == \E i \in 1..Len(Ascii) : Ascii[i] = c

Ord(c) ==
  IF c = "\t" THEN 9
  ELSE IF c = "\n" THEN 10
  ELSE 31 + (CHOOSE i \in 1..Len(Ascii) : Ascii[i] = c)

IsUpper(c) == IsAscii(c) /\ Ord(c) >= 65 /\ Ord(c) <= 90

IsLetter(c) == IsAscii(c) /\ (IsUpper(c) \/ (Ord(c) >= 97 /\ Ord(c) <= 122))

IsDigit(c) == IsAscii(c) /\ Ord(c) >= 48 /\ Ord(c) <= 57

\* str.lower() on one character
LowerChar(c) == IF IsUpper(c) THEN Ascii[Ord(c) + 32 - 31] ELSE c

Lower(s) == [i \in 1..Len(s) |-> LowerChar(s[i])]

\* regex \w and \s
IsWordChar(c) == IsLetter(c) \/ IsDigit(c) \/ c = "_"

IsSpaceChar(c) == c \in {" ", "\t", "\n"}

StartsWith(s, p) == Len(p) <= Len(s) /\ SubSeq(s, 1, Len(p)) = p

\* p occurs in s at position i
OccursAt(s, p, i) == i >= 1 /\ i + Len(p) - 1 <= Len(s) /\ SubSeq(s, i, i + Len(p) - 1) = p

\* Python's "p in s"
Contains(s, p) == \E i \in 1..(Len(s) + 1) : OccursAt(s, p, i)

\* str.strip()
Strip(s) ==
  LET keep == {i \in 1..Len(s) : ~IsSpaceChar(s[i])}
  IN  IF keep = {} THEN <<>>
      ELSE SubSeq(s, CHOOSE i \in keep : \A j \in keep : i <= j,
                     CHOOSE i \in keep : \A j \in keep : j <= i)

\* os.path.splitext on a name without a path separator: the extension starts
\* at the last dot, unless only dots precede it.
splitext(p) ==
  LET dots == {i \in 1..Len(p) : p[i] = "."}
  IN  IF dots = {} THEN <<p, <<>> >>
      ELSE LET d == CHOOSE i \in dots : \A j \in dots : j <= i
           IN  IF \E k \in 1..(d - 1) : p[k] # "."
               THEN <<SubSeq(p, 1, d - 1), SubSeq(p, d, Len(p))>>
               ELSE <<p, <<>> >>

(***************************************************************************)
(* Constants of the program.                                               *)
(***************************************************************************)
MAX_FILE_SIZE == 50 * 1024 * 1024

CHUNK_SIZE == 45 * 1024 * 1024

SUPPORTED_PLATFORMS ==
  { <<"y","o","u","t","u","b","e",".","c","o","m">>,
    <<"y","o","u","t","u",".","b","e">>,
    <<"m",".","y","o","u","t","u","b","e",".","c","o","m">>,
    <<"y","o","u","t","u","b","e","-","n","o","c","o","o","k","i","e",".","c","o","m">>,
    <<"f","a","c","e","b","o","o","k",".","c","o","m">>,
    <<"f","b",".","w","a","t","c","h">>,
    <<"m",".","f","a","c","e","b","o","o","k",".","c","o","m">>,
    <<"w","e","b",".","f","a","c","e","b","o","o","k",".","c","o","m">>,
    <<"i","n","s","t","a","g","r","a","m",".","c","o","m">>,
    <<"w","w","w",".","i","n","s","t","a","g","r","a","m",".","c","o","m">>,
    <<"t","i","k","t","o","k",".","c","o","m">>,
    <<"v","m",".","t","i","k","t","o","k",".","c","o","m">>,
    <<"t","w","i","t","t","e","r",".","c","o","m">>,
    <<"x",".","c","o","m">>,
    <<"r","e","d","d","i","t",".","c","o","m">>,
    <<"v",".","r","e","d","d",".","i","t">>,
    <<"v","i","m","e","o",".","c","o","m">>,
    <<"d","a","i","l","y","m","o","t","i","o","n",".","c","o","m">>,
    <<"t","w","i","t","c","h",".","t","v">>,
    <<"s","o","u","n","d","c","l","o","u","d",".","c","o","m">>,
    <<"t","e","r","a","b","o","x",".","c","o","m">>,
    <<"l","i","k","e","e",".","c","o","m">>,
    <<"k","w","a","i",".","c","o","m">>,
    <<"b","i","l","i","b","i","l","i",".","c","o","m">>,
    <<"t",".","m","e">>,
    <<"d","i","s","c","o","r","d",".","c","o","m">>,
    <<"p","i","n",".","i","t">>,
    <<"p","i","n","t","e","r","e","s","t",".","c","o","m">>,
    <<"r","u","t","u","b","e",".","r","u">>,
    <<"o","k",".","r","u">>,
    <<"w","h","a","t","s","a","p","p",".","c","o","m">> }

\* The if/elif chain of detect_platform, in its order.
PlatformRules ==
  << [tag |-> "youtube", domains |-> <<<<"y","o","u","t","u","b","e",".","c","o","m">>, <<"y","o","u","t","u",".","b","e">>>>],
     [tag |-> "facebook", domains |-> <<<<"f","a","c","e","b","o","o","k",".","c","o","m">>, <<"f","b",".","w","a","t","c","h">>>>],
     [tag |-> "instagram", domains |-> <<<<"i","n","s","t","a","g","r","a","m",".","c","o","m">>>>],
     [tag |-> "tiktok", domains |-> <<<<"t","i","k","t","o","k",".","c","o","m">>, <<"v","m",".","t","i","k","t","o","k",".","c","o","m">>>>],
     [tag |-> "twitter", domains |-> <<<<"t","w","i","t","t","e","r",".","c","o","m">>, <<"x",".","c","o","m">>>>],
     [tag |-> "reddit", domains |-> <<<<"r","e","d","d","i","t",".","c","o","m">>, <<"v",".","r","e","d","d",".","i","t">>>>],
     [tag |-> "vimeo", domains |-> <<<<"v","i","m","e","o",".","c","o","m">>>>],
     [tag |-> "dailymotion", domains |-> <<<<"d","a","i","l","y","m","o","t","i","o","n",".","c","o","m">>>>],
     [tag |-> "twitch", domains |-> <<<<"t","w","i","t","c","h",".","t","v">>>>],
     [tag |-> "soundcloud", domains |-> <<<<"s","o","u","n","d","c","l","o","u","d",".","c","o","m">>>>],
     [tag |-> "terabox", domains |-> <<<<"t","e","r","a","b","o","x",".","c","o","m">>>>],
     [tag |-> "likee", domains |-> <<<<"l","i","k","e","e",".","c","o","m">>>>],
     [tag |-> "kwai", domains |-> <<<<"k","w","a","i",".","c","o","m">>>>],
     [tag |-> "bilibili", domains |-> <<<<"b","i","l","i","b","i","l","i",".","c","o","m">>>>],
     [tag |-> "pinterest", domains |-> <<<<"p","i","n","t","e","r","e","s","t",".","c","o","m">>, <<"p","i","n",".","i","t">>>>],
     [tag |-> "rutube", domains |-> <<<<"r","u","t","u","b","e",".","r","u">>>>],
     [tag |-> "ok", domains |-> <<<<"o","k",".","r","u">>>>],
     [tag |-> "whatsapp", domains |-> <<<<"w","h","a","t","s","a","p","p",".","c","o","m">>>>] >>

(***************************************************************************)
(* sanitize_filename                                                       *)
(***************************************************************************)
\* the class [<>:"/\\|?*\x00-\x1f]
IsHostileChar(c) ==
  c \in {"<", ">", ":", "\"", "/", "\\", "|", "?", "*", "\t", "\n"}

\* the class [\w\s\-_\.]
IsKeptChar(c) == IsWordChar(c) \/ IsSpaceChar(c) \/ c \in {"-", "_", "."}

DefaultName == <<"v","i","d","e","o">>

Ellipsis == <<".",".",".">>

\* The slice s[:n]: the first n characters, all of s when it has fewer.
Slice(s, n) == SubSeq(s, 1, IF Len(s) < n THEN Len(s) ELSE n)

\* Lines 116-118: the name without the removed characters, stripped.
Cleaned(filename) ==
  Strip(SelectSeq(SelectSeq(filename, LAMBDA c : ~IsHostileChar(c)), IsKeptChar))

sanitize_filename(filename) ==
  IF filename = <<>> THEN DefaultName
  ELSE LET a == SelectSeq(filename, LAMBDA c : ~IsHostileChar(c))
           b == SelectSeq(a, IsKeptChar)
           s == Strip(b)
           t == IF Len(s) > 80
                THEN Slice(splitext(s)[1], 70) \o Ellipsis \o splitext(s)[2]
                ELSE s
       IN  IF t = <<>> THEN DefaultName ELSE t

(***************************************************************************)
(* The URL registry: generate_url_id, store_url, get_url.                  *)
(***************************************************************************)
\* The number of distinct md5-derived ids of the model.
IdSpace == 2

None == "None"

DefaultId == <<"default", 0>>

Ids == {<<"md5", n>> : n \in 0..(IdSpace - 1)} \cup {DefaultId}

RECURSIVE CodeSum(_)
CodeSum(s) == IF s = <<>> THEN 0 ELSE Ord(Head(s)) + CodeSum(Tail(s))

\* base64.urlsafe_b64encode(md5(url.encode('utf-8')).digest())[:12]: a fixed
\* function of the text with fewer values than there are texts; "default"
\* when the text cannot be encoded.
generate_url_id(url) ==
  IF \E i \in 1..Len(url) : url[i] = Surrogate
  THEN DefaultId
  ELSE <<"md5", CodeSum(url) % IdSpace>>

\* Every URL stored under the fallback id.
store_url_default(cache, url, url_id) == [cache EXCEPT ![DefaultId] = url]

\* A store that keeps no entry but the new one.
store_url_alone(cache, url, url_id) ==
  [i \in DOMAIN cache |-> IF i = url_id THEN url ELSE <<>>]

\* url_cache after store_url(url), url_id being generate_url_id(url)
store_url(cache, url, url_id) == [cache EXCEPT ![url_id] = url]

\* A lookup that falls back on any entry there is.
get_url_any(cache, url_id) ==
  IF url_id \in DOMAIN cache /\ cache[url_id] # <<>> THEN cache[url_id]
  ELSE IF \E i \in DOMAIN cache : cache[i] # <<>>
       THEN cache[CHOOSE i \in DOMAIN cache : cache[i] # <<>>]
       ELSE <<>>

\* dict.get: the empty text stands for None (both are falsy in "if not url")
get_url(cache, url_id) == IF url_id \in DOMAIN cache THEN cache[url_id] ELSE <<>>

(***************************************************************************)
(* detect_platform and is_valid_url                                        *)
(***************************************************************************)
RuleMatches(r, low) == \E k \in 1..Len(r.domains) : Contains(low, r.domains[k])

\* A chain in which the last matching rule wins.
detect_platform_last(url) ==
  LET low == Lower(url)
      hits == {i \in 1..Len(PlatformRules) : RuleMatches(PlatformRules[i], low)}
  IN  IF hits = {} THEN "default"
      ELSE PlatformRules[CHOOSE i \in hits : \A j \in hits : j <= i].tag

detect_platform(url) ==
  LET low == Lower(url)
      hits == {i \in 1..Len(PlatformRules) : RuleMatches(PlatformRules[i], low)}
  IN  IF hits = {} THEN "default"
      ELSE PlatformRules[CHOOSE i \in hits : \A j \in hits : i <= j].tag

\* The run of characters other than "/" that starts at position j.
RECURSIVE RunNoSlash(_, _)
RunNoSlash(s, j) ==
  IF j > Len(s) \/ s[j] = "/" THEN <<>> ELSE <<s[j]>> \o RunNoSlash(s, j + 1)

\* Group 1 of the pattern ://(?:www\.)?([^/]+) anchored at position i, or
\* None: "www." is consumed when a character other than "/" follows it.
MatchAt(s, i) ==
  IF ~OccursAt(s, <<":", "/", "/">>, i) THEN None
  ELSE LET j == i + 3
       IN  IF OccursAt(s, <<"w", "w", "w", ".">>, j) /\ RunNoSlash(s, j + 4) # <<>>
           THEN RunNoSlash(s, j + 4)
           ELSE IF RunNoSlash(s, j) # <<>> THEN RunNoSlash(s, j) ELSE None

\* A search whose group runs to the end of the text, over "/" too.
DomainMatch_to_end(s) ==
  LET at == {i \in 1..Len(s) : OccursAt(s, <<":", "/", "/">>, i) /\ i + 3 <= Len(s)}
  IN  IF at = {} THEN None
      ELSE SubSeq(s, (CHOOSE i \in at : \A j \in at : i <= j) + 3, Len(s))

\* re.search: the leftmost position with a match
DomainMatch(s) ==
  LET at == {i \in 1..Len(s) : MatchAt(s, i) # None}
  IN  IF at = {} THEN None ELSE MatchAt(s, CHOOSE i \in at : \A j \in at : i <= j)

\* The validation without the test of line 191.
is_valid_url_any_scheme(url) ==
  LET domain == DomainMatch(Lower(url))
  IN  IF domain = None THEN FALSE
      ELSE \E platform \in SUPPORTED_PLATFORMS : Contains(domain, platform)

is_valid_url(url) ==
  IF ~(StartsWith(url, <<"h","t","t","p",":","/","/">>)
       \/ StartsWith(url, <<"h","t","t","p","s",":","/","/">>))
  THEN FALSE
  ELSE LET domain == DomainMatch(Lower(url))
       IN  IF domain = None THEN FALSE
           ELSE \E platform \in SUPPORTED_PLATFORMS : Contains(domain, platform)

(***************************************************************************)
(* The handlers.  Every update is handled by one coroutine; Tasks are the  *)
(* coroutines that may be live at once.  A coroutine is suspended at an    *)
(* await (its pc names the awaited call) and any suspended coroutine may   *)
(* be the next to resume.                                                  *)
(***************************************************************************)
Tasks == {"t1", "t2"}

\* The slots that take callback queries.
Downloaders == {"t1"}

\* Texts a user sends (message.text).
TextYoutube ==
  <<"h","t","t","p","s",":","/","/","y","o","u","t","u",".","b","e","/","a">>

TextFacebook ==
  <<" "," ","h","t","t","p","s",":","/","/","f","b",".","w","a","t","c","h","/","b"," ">>

TextTiktok ==
  <<"h","t","t","p","s",":","/","/","w","w","w",".","T","i","k","T","o","k",".","c","o","m","/","c">>

TextNoScheme ==
  <<"f","t","p",":","/","/","y","o","u","t","u","b","e",".","c","o","m","/","a">>

TextOther ==
  <<"h","t","t","p","s",":","/","/","e","x","a","m","p","l","e",".","o","r","g","/","v">>

Texts == {TextYoutube, TextFacebook, TextTiktok, TextNoScheme, TextOther}

\* The callback data of the buttons of create_quality_keyboard.
Qualities == {"high", "standard", "audio"}

create_quality_keyboard(url_id) == {<<"dl", q, url_id>> : q \in Qualities}

\* Buttons a user may press: those of any keyboard, of this run of the
\* process or of an earlier one.
Buttons == UNION {create_quality_keyboard(id) : id \in Ids}

\* Names of the scratch directories mkdtemp may pick.
DirNames == {"tmpA"}

\* The files a download leaves in its directory: the merged output, a
\* partial file of an attempt that failed, a dot file.
NameVideo ==
  <<"m","y"," ","c","l","i","p","&","1",".","m","p","4">>

NamePartial ==
  <<"m","y"," ","c","l","i","p","&","1",".","m","p","4",".","p","a","r","t">>

NameHidden ==
  <<".","t","m","p",".","m","p","4">>


\* The largest number of whole chunks of a file of the model.
MaxChunks == 2

FileSizes ==
  {MAX_FILE_SIZE, MAX_FILE_SIZE + 1}
    \cup {k * CHUNK_SIZE + d : k \in 2..MaxChunks, d \in {-1, 0, 1}}

\* What one ydl.download may write before it returns or raises; by names
\* the writer, <<handler slot, number of the attempt>>.
Written(ok, by) ==
  IF ok
  THEN {{}} \cup {{[name |-> NameHidden, size |-> 1, by |-> by]}}
            \cup {{[name |-> NameVideo, size |-> s, by |-> by]} : s \in FileSizes}
  ELSE {{}} \cup {{[name |-> NamePartial, size |-> 1, by |-> by]}}

\* A directory after the files w are written into it (same name: replaced).
WriteFiles(dir, w) ==
  {f \in dir : \A g \in w : g.name # f.name} \cup w

VARIABLES
  url_cache,   \* the dict url_cache
  dirs,        \* the scratch directories that exist
  files,       \* files[d]: the files of directory d
  pc,          \* pc[t]: where coroutine t is suspended
  loc,         \* loc[t]: the local variables of the handler t runs
  chat,        \* chat[t]: what handler t has sent to its chat, in order
  calls,       \* calls[t]: the extractor calls handler t has started, in order
  stores,      \* stores[i]: the URL of the latest store_url call that returned i
  input,       \* the argument a pure function is called with
  output       \* output: the values the calls with that argument returned

vars == <<url_cache, dirs, files, pc, loc, chat, calls, stores, input, output>>

NoUrl == <<>>

NoId == <<"none", 0>>

NoLoc ==
  [handler |-> "", text |-> <<>>, quality |-> "", url_id |-> NoId, url |-> NoUrl,
   temp_dir |-> "",
   success |-> FALSE, attempt |-> 0, listed |-> FALSE, downloaded_files |-> <<>>,
   file_name |-> <<>>, file_size |-> 0,
   filename |-> <<>>, pos |-> 0, chunk_num |-> 0, chunk |-> <<0, 0>>]

\* ---- what a handler sends to the chat.  The texts and the edits of the
\* status message are taken to arrive; the extractor, the filesystem and the
\* sends of files (answer_video, answer_audio, answer_document) may fail.
\* The text kinds name the messages: InvalidUrl (line 324), Analyzing (339),
\* Analyzed (379), ReadyForProcessing (392), ReadyForDownload (407),
\* ProcessError (414), UnknownHandle (429), Starting (436),
\* AllFormatsExhausted (508), NoOutputProduced (520), Uploading (527),
\* LargeFileNotice (558), Deleted (581, the status message is deleted),
\* DownloadFailed (586), HandlerError (590).
Text(what) ==
  [kind |-> "text", what |-> what, id |-> NoId, name |-> <<>>, from |-> 0, to |-> 0]

\* a text with the quality keyboard of url_id
Options(what, url_id) ==
  [kind |-> "text", what |-> what, id |-> url_id, name |-> <<>>, from |-> 0, to |-> 0]

\* a file: the bytes from..to-1 of the downloaded file, under a name
Upload(kind, name, data) ==
  [kind |-> kind, what |-> "", id |-> NoId, name |-> name, from |-> data[1], to |-> data[2]]

Say(t, e) == chat' = [chat EXCEPT ![t] = Append(@, e)]

Urls == {Strip(x) : x \in Texts}

\* The pure functions on the texts of the model, evaluated once.
StripOf == [x \in Texts |-> Strip(x)]

ValidOf == [u \in Urls |-> is_valid_url(u)]

IdOf == [u \in Urls |-> generate_url_id(u)]

PlatformOf == [u \in Urls |-> detect_platform(u)]

FileNames == {NameVideo, NamePartial, NameHidden}

SanitizedOf == [n \in FileNames |-> sanitize_filename(n)]

TypeOK ==
  /\ url_cache \in [Ids -> Urls \cup {NoUrl}]
  /\ dirs \subseteq DirNames
  /\ pc \in [Tasks -> STRING]

\* No handler has run.
NoHandlers ==
  /\ url_cache = [i \in Ids |-> NoUrl]
  /\ dirs = {}
  /\ files = [d \in DirNames |-> {}]
  /\ pc = [t \in Tasks |-> "idle"]
  /\ loc = [t \in Tasks |-> NoLoc]
  /\ chat = [t \in Tasks |-> <<>>]
  /\ calls = [t \in Tasks |-> <<>>]
  /\ stores = [i \in Ids |-> NoUrl]

Init ==
  /\ NoHandlers
  /\ input = <<>>
  /\ output = <<>>

(***************************************************************************)
(* process_url                                                             *)
(***************************************************************************)
\* What ydl.extract_info(url, download=False) may give: metadata the handler
\* can format, metadata whose formatting raises (a duration that is not an
\* int), nothing, or an exception.
ProbeResults == {"info", "unformattable", "none", "raises"}

\* A handler that stores the URL before it validates it.
PuStart_stores_first(t, text) ==
  /\ pc[t] = "idle"
  /\ LET url == StripOf[text]
     IN  /\ url_cache' = store_url(url_cache, url, IdOf[url])
         /\ stores' = [stores EXCEPT ![IdOf[url]] = url]
         /\ IF ~ValidOf[url]
            THEN /\ Say(t, Text("InvalidUrl"))
                 /\ loc' = [loc EXCEPT ![t].handler = "process_url", ![t].text = text]
                 /\ pc' = [pc EXCEPT ![t] = "done"]
            ELSE /\ loc' = [loc EXCEPT ![t].handler = "process_url",
                                       ![t].text = text,
                                       ![t].url = url,
                                       ![t].url_id = IdOf[url]]
                 /\ Say(t, Text("Analyzing"))
                 /\ pc' = [pc EXCEPT ![t] = "pu_analysis"]
  /\ UNCHANGED <<dirs, files, calls, input, output>>

\* Lines 319-339: strip and validate the text; reject it, or store the URL
\* and send the analysis message.
PuStart(t, text) ==
  /\ pc[t] = "idle"
  /\ LET url == StripOf[text]
     IN  IF ~ValidOf[url]
         THEN /\ Say(t, Text("InvalidUrl"))
              /\ loc' = [loc EXCEPT ![t].handler = "process_url", ![t].text = text]
              /\ pc' = [pc EXCEPT ![t] = "done"]
              /\ UNCHANGED <<url_cache, stores>>
         ELSE /\ url_cache' = store_url(url_cache, url, IdOf[url])
              /\ stores' = [stores EXCEPT ![IdOf[url]] = url]
              /\ loc' = [loc EXCEPT ![t].handler = "process_url",
                                    ![t].text = text,
                                    ![t].url = url,
                                    ![t].url_id = IdOf[url]]
              /\ Say(t, Text("Analyzing"))
              /\ pc' = [pc EXCEPT ![t] = "pu_analysis"]
  /\ UNCHANGED <<dirs, files, calls, input, output>>

\* Lines 341-352: the analysis message is out; start the probe in a thread.
PuProbe(t) ==
  /\ pc[t] = "pu_analysis"
  /\ calls' = [calls EXCEPT ![t] = Append(@, [op |-> "extract_info", url |-> loc[t].url,
                                           result |-> "running"])]
  /\ pc' = [pc EXCEPT ![t] = "pu_probing"]
  /\ UNCHANGED <<url_cache, dirs, files, loc, chat, stores, input, output>>

\* The text process_url shows with the quality keyboard after a probe result:
\* line 379 with metadata, 392 without, 407 from the except branch.
ProbeText(r) ==
  CASE r = "info" -> "Analyzed"
    [] r = "none" -> "ReadyForProcessing"
    [] OTHER -> "ReadyForDownload"

\* A probe error that reaches the outer handler, line 414.
ProbeReply_propagates(r, url_id) ==
  IF r \in {"raises", "unformattable"} THEN Text("ProcessError")
  ELSE Options(ProbeText(r), url_id)

\* What the handler answers to a probe result.
ProbeReply(r, url_id) == Options(ProbeText(r), url_id)

\* Lines 354-410: the probe is back; show the quality keyboard.
PuProbeReturn(t, r) ==
  /\ pc[t] = "pu_probing"
  /\ calls' = [calls EXCEPT ![t][Len(calls[t])].result = r]
  /\ Say(t, ProbeReply(r, loc[t].url_id))
  /\ pc' = [pc EXCEPT ![t] = "done"]
  /\ UNCHANGED <<url_cache, dirs, files, loc, stores, input, output>>

(***************************************************************************)
(* handle_download                                                         *)
(***************************************************************************)
format_selector(quality) ==
  CASE quality = "high" -> "bestvideo[height<=1080]+bestaudio/best[height<=1080]"
    [] quality = "standard" -> "bestvideo[height<=720]+bestaudio/best[height<=720]"
    [] quality = "audio" -> "bestaudio"
    [] OTHER -> "best"

\* A list that comes back to "best" after "worst".
formats_to_try_again(quality) == <<format_selector(quality), "best", "worst", "best">>

formats_to_try(quality) == <<format_selector(quality), "best", "worst">>

DesktopAgent == "Mozilla/5.0 (Windows NT 10.0; Win64; x64) AppleWebKit/537.36"

MobileAgent == "Mozilla/5.0 (iPhone; CPU iPhone OS 17_0 like Mac OS X) AppleWebKit/605.1.15"

\* ydl_opts['http_headers'], "" when the key is not set
http_headers(platform) ==
  IF platform = "facebook" THEN DesktopAgent
  ELSE IF platform \in {"tiktok", "instagram"} THEN MobileAgent
  ELSE ""

\* Options built anew for a fallback attempt, without the platform's headers.
ydl_opts_bare_fallback(l, fmt) ==
  [format |-> fmt,
   http_headers |-> IF fmt \in {"best", "worst"} THEN ""
                    ELSE http_headers(PlatformOf[l.url]),
   extract_audio |-> (l.quality = "audio"),
   outdir |-> l.temp_dir]

\* The options of one attempt: ydl_opts.copy() with the attempt's format.
ydl_opts(l, fmt) ==
  [format |-> fmt,
   http_headers |-> http_headers(PlatformOf[l.url]),
   extract_audio |-> (l.quality = "audio"),
   outdir |-> l.temp_dir]

\* The for loop's next pass: the selector to try after `attempt` attempts,
\* "" when the list is used up.
next_format(quality, attempt) ==
  IF attempt < Len(formats_to_try(quality))
  THEN formats_to_try(quality)[attempt + 1]
  ELSE ""

\* The loop without its break.
loop_continues_nobreak(ok, fmt) == fmt # ""

\* Whether the loop goes on after an attempt: break on success.
loop_continues(ok, fmt) == ~ok /\ fmt # ""

\* Lines 498-499: ydl.download([url]) under the options of the attempt,
\* started in a thread.
Download(l, fmt) ==
  [op |-> "download", url |-> l.url, opts |-> ydl_opts(l, fmt), result |-> "running"]

\* The check of line 507 left out.
exhausted_unchecked(success) == FALSE

\* Line 507: no attempt succeeded.
exhausted(success) == ~success

\* The orders in which os.listdir may give the files S.
Orders(S) ==
  {o \in [1..Cardinality(S) -> S] : \A i, j \in 1..Cardinality(S) : o[i] = o[j] => i = j}

\* os.listdir with the dot files kept.
downloaded_files_unfiltered(dir) == dir

\* os.listdir without the dot files
downloaded_files(dir) == {f \in dir : Head(f.name) # "."}

\* A directory made with mkdtemp and never removed.
cleanup_leaks(existing, d) == existing

\* TemporaryDirectory.__exit__: the directory and what is in it are removed.
cleanup(existing, d) == existing \ {d}

\* A read that gives nothing when fewer than n bytes are left.
Read_drops_tail(size, pos, n) == IF pos + n <= size THEN <<pos, pos + n>> ELSE <<pos, pos>>

\* file.read(n) at offset pos of a file of `size` bytes: the bytes
\* pos..to-1, as <<pos, to>>; nothing at the end of the file.
Read(size, pos, n) == <<pos, IF pos + n < size THEN pos + n ELSE size>>

IsEmpty(data) == data[1] >= data[2]

RECURSIVE Decimal(_)
Decimal(n) ==
  IF n < 10 THEN <<Ascii[n + 17]>>
  ELSE Decimal(n \div 10) \o <<Ascii[(n % 10) + 17]>>

RECURSIVE ZeroPad(_, _)
ZeroPad(s, width) == IF Len(s) >= width THEN s ELSE ZeroPad(<<"0">> \o s, width)

\* Parts numbered from 1.
chunk_filename_from_one(filename, chunk_num) ==
  filename \o <<".","p","a","r","t">> \o ZeroPad(Decimal(chunk_num + 1), 3)

\* f"{filename}.part{chunk_num:03d}"
chunk_filename(filename, chunk_num) ==
  filename \o <<".","p","a","r","t">> \o ZeroPad(Decimal(chunk_num), 3)

\* Line 420: the handler starts and awaits callback.answer().
HdStart(t, data) ==
  /\ pc[t] = "idle"
  /\ loc' = [loc EXCEPT ![t].handler = "handle_download",
                        ![t].quality = data[2],
                        ![t].url_id = data[3]]
  /\ pc' = [pc EXCEPT ![t] = "hd_answer"]
  /\ UNCHANGED <<url_cache, dirs, files, chat, calls, stores, input, output>>

\* Lines 422-441: resolve the id; report an unknown one, or send the
\* starting message.
HdResolve(t) ==
  /\ pc[t] = "hd_answer"
  /\ LET url == get_url(url_cache, loc[t].url_id)
     IN  IF url = NoUrl
         THEN /\ Say(t, Text("UnknownHandle"))
              /\ pc' = [pc EXCEPT ![t] = "done"]
              /\ UNCHANGED loc
         ELSE /\ loc' = [loc EXCEPT ![t].url = url]
              /\ Say(t, Text("Starting"))
              /\ pc' = [pc EXCEPT ![t] = "hd_starting"]
  /\ UNCHANGED <<url_cache, dirs, files, calls, stores, input, output>>

\* A handler that works in a directory of a fixed name, made if missing.
HdEnterScratch_shared(t, d) ==
  /\ pc[t] = "hd_starting"
  /\ dirs' = dirs \cup {d}
  /\ UNCHANGED files
  /\ LET l == [loc[t] EXCEPT !.temp_dir = d, !.success = FALSE, !.attempt = 1]
     IN  /\ loc' = [loc EXCEPT ![t] = l]
         /\ calls' = [calls EXCEPT ![t] = Append(@, Download(l, next_format(l.quality, 0)))]
  /\ pc' = [pc EXCEPT ![t] = "hd_fetching"]
  /\ UNCHANGED <<url_cache, chat, stores, input, output>>

\* Lines 443-499: build the options, create the scratch directory and start
\* the first attempt.
HdEnterScratch(t, d) ==
  /\ pc[t] = "hd_starting"
  /\ d \notin dirs
  /\ dirs' = dirs \cup {d}
  /\ files' = [files EXCEPT ![d] = {}]
  /\ LET l == [loc[t] EXCEPT !.temp_dir = d, !.success = FALSE, !.attempt = 1]
     IN  /\ loc' = [loc EXCEPT ![t] = l]
         /\ calls' = [calls EXCEPT ![t] = Append(@, Download(l, next_format(l.quality, 0)))]
  /\ pc' = [pc EXCEPT ![t] = "hd_fetching"]
  /\ UNCHANGED <<url_cache, chat, stores, input, output>>

\* Line 485 raises (no directory can be made): the outer handler, line 590.
HdScratchFails(t) ==
  /\ pc[t] = "hd_starting"
  /\ Say(t, Text("HandlerError"))
  /\ pc' = [pc EXCEPT ![t] = "done"]
  /\ UNCHANGED <<url_cache, dirs, files, loc, calls, stores, input, output>>

\* An error that no handler catches: the coroutine ends with nothing said.
Fail_uncaught(t, l) ==
  /\ loc' = [loc EXCEPT ![t] = l]
  /\ UNCHANGED chat
  /\ pc' = [pc EXCEPT ![t] = "hd_final_msg"]

\* Lines 584-586: the inner handler reports a failed download.
Fail(t, l) ==
  /\ loc' = [loc EXCEPT ![t] = l]
  /\ Say(t, Text("DownloadFailed"))
  /\ pc' = [pc EXCEPT ![t] = "hd_final_msg"]

\* Lines 500-527: an attempt is over, with the files w written.  A failure
\* moves to the next selector, or reports that all failed; a success ends
\* the loop, and the first listed file is measured and announced.
HdFetchReturn(t, ok, w, io_ok) ==
  /\ pc[t] = "hd_fetching"
  /\ w \in Written(ok, <<t, loc[t].attempt>>)
  /\ ok \/ io_ok
  /\ LET d == loc[t].temp_dir
         after == WriteFiles(files[d], w)
         fmt == next_format(loc[t].quality, loc[t].attempt)
         l == [loc[t] EXCEPT !.success = ok]
         returned == [calls[t] EXCEPT ![Len(calls[t])].result =
                                         IF ok THEN "ok" ELSE "raised"]
     IN  /\ files' = [files EXCEPT ![d] = after]
         /\ IF loop_continues(ok, fmt)
            THEN /\ loc' = [loc EXCEPT ![t] = [l EXCEPT !.attempt = @ + 1]]
                 /\ calls' = [calls EXCEPT ![t] = Append(returned, Download(l, fmt))]
                 /\ UNCHANGED <<pc, chat>>
            ELSE /\ calls' = [calls EXCEPT ![t] = returned]
                 /\ IF exhausted(l.success)
                    THEN /\ loc' = [loc EXCEPT ![t] = l]
                         /\ Say(t, Text("AllFormatsExhausted"))
                         /\ pc' = [pc EXCEPT ![t] = "hd_final_msg"]
                    ELSE IF ~io_ok
                    THEN Fail(t, l)
                    ELSE \E o \in Orders(downloaded_files(after)) :
                           LET ll == [l EXCEPT !.listed = TRUE,
                                               !.downloaded_files =
                                                  [i \in 1..Len(o) |-> o[i].name]]
                           IN  IF o = <<>>
                               THEN /\ loc' = [loc EXCEPT ![t] = ll]
                                    /\ Say(t, Text("NoOutputProduced"))
                                    /\ pc' = [pc EXCEPT ![t] = "hd_final_msg"]
                               ELSE /\ loc' = [loc EXCEPT ![t] =
                                                 [ll EXCEPT !.file_name = o[1].name,
                                                            !.file_size = o[1].size,
                                                            !.filename = SanitizedOf[o[1].name]]]
                                    /\ Say(t, Text("Uploading"))
                                    /\ pc' = [pc EXCEPT ![t] = "hd_uploading_msg"]
  /\ UNCHANGED <<url_cache, dirs, stores, input, output>>

\* The comparison of line 539 made strict.
is_single_strict(file_size) == file_size < MAX_FILE_SIZE

\* Line 539: one unit, or chunks.
is_single(file_size) == file_size <= MAX_FILE_SIZE

\* Lines 539-563: the uploading message is out; open the file to read it
\* whole, or announce the split.
HdUploadingReturn(t) ==
  /\ pc[t] = "hd_uploading_msg"
  /\ IF is_single(loc[t].file_size)
     THEN /\ pc' = [pc EXCEPT ![t] = "hd_reading"]
          /\ UNCHANGED chat
     ELSE /\ Say(t, Text("LargeFileNotice"))
          /\ pc' = [pc EXCEPT ![t] = "hd_notice"]
  /\ UNCHANGED <<url_cache, dirs, files, loc, calls, stores, input, output>>

\* Lines 541-555: the whole file is read; send it as audio or video.
HdReadReturn(t, io_ok) ==
  /\ pc[t] = "hd_reading"
  /\ IF io_ok
     THEN /\ loc' = [loc EXCEPT ![t].chunk = Read(loc[t].file_size, 0, loc[t].file_size)]
          /\ pc' = [pc EXCEPT ![t] = "hd_sending"]
          /\ UNCHANGED chat
     ELSE Fail(t, loc[t])
  /\ UNCHANGED <<url_cache, dirs, files, calls, stores, input, output>>

\* Lines 545-581: the send is over; delete the status message.
HdSendReturn(t, ok) ==
  /\ pc[t] = "hd_sending"
  /\ IF ok
     THEN /\ chat' = [chat EXCEPT ![t] =
                        @ \o <<Upload(IF loc[t].quality = "audio" THEN "audio" ELSE "video",
                                      loc[t].filename, loc[t].chunk),
                               Text("Deleted")>>]
          /\ pc' = [pc EXCEPT ![t] = "hd_final_msg"]
          /\ UNCHANGED loc
     ELSE Fail(t, loc[t])
  /\ UNCHANGED <<url_cache, dirs, files, calls, stores, input, output>>

\* Lines 568-577: one pass of the while loop up to its await: read a chunk;
\* stop at the end of the file, else send the chunk.
ReadChunk(t, l, io_ok) ==
  IF ~io_ok THEN Fail(t, l)
  ELSE LET data == Read(l.file_size, l.pos, CHUNK_SIZE)
       IN  IF IsEmpty(data)
           THEN /\ loc' = [loc EXCEPT ![t] = l]
                /\ Say(t, Text("Deleted"))
                /\ pc' = [pc EXCEPT ![t] = "hd_final_msg"]
           ELSE /\ loc' = [loc EXCEPT ![t] = [l EXCEPT !.chunk = data, !.pos = data[2]]]
                /\ pc' = [pc EXCEPT ![t] = "hd_chunk_sending"]
                /\ UNCHANGED chat

\* Lines 565-577: the notice is out; open the file and read the first chunk.
HdNoticeReturn(t, io_ok) ==
  /\ pc[t] = "hd_notice"
  /\ ReadChunk(t, [loc[t] EXCEPT !.chunk_num = 0, !.pos = 0], io_ok)
  /\ UNCHANGED <<url_cache, dirs, files, calls, stores, input, output>>

\* A failed send of a chunk that is passed over: the loop goes on.
HdChunkSendReturn_goes_on(t, ok) ==
  /\ pc[t] = "hd_chunk_sending"
  /\ IF ok
     THEN Say(t, Upload("document",
                        chunk_filename(loc[t].filename, loc[t].chunk_num),
                        loc[t].chunk))
     ELSE UNCHANGED chat
  /\ loc' = [loc EXCEPT ![t].chunk_num = @ + 1]
  /\ pc' = [pc EXCEPT ![t] = "hd_chunk_sleep"]
  /\ UNCHANGED <<url_cache, dirs, files, calls, stores, input, output>>

\* Lines 574-579: a chunk's send is over; count it and sleep.
HdChunkSendReturn(t, ok) ==
  /\ pc[t] = "hd_chunk_sending"
  /\ IF ok
     THEN /\ Say(t, Upload("document",
                           chunk_filename(loc[t].filename, loc[t].chunk_num),
                           loc[t].chunk))
          /\ loc' = [loc EXCEPT ![t].chunk_num = @ + 1]
          /\ pc' = [pc EXCEPT ![t] = "hd_chunk_sleep"]
     ELSE Fail(t, loc[t])
  /\ UNCHANGED <<url_cache, dirs, files, calls, stores, input, output>>

\* Lines 579, 568-577: the sleep is over; the next pass of the loop.
HdSleepReturn(t, io_ok) ==
  /\ pc[t] = "hd_chunk_sleep"
  /\ ReadChunk(t, loc[t], io_ok)
  /\ UNCHANGED <<url_cache, dirs, files, calls, stores, input, output>>

\* Lines 485, 515, 521, 581-586: the last message of the with block is out;
\* the block is left and the handler returns.
HdReturn(t) ==
  /\ pc[t] = "hd_final_msg"
  /\ dirs' = cleanup(dirs, loc[t].temp_dir)
  /\ files' = [files EXCEPT ![loc[t].temp_dir] = {}]
  /\ pc' = [pc EXCEPT ![t] = "done"]
  /\ UNCHANGED <<url_cache, loc, chat, calls, stores, input, output>>

\* The handler is over; the coroutine slot takes the next update.
Reset(t) ==
  /\ pc[t] = "done"
  /\ pc' = [pc EXCEPT ![t] = "idle"]
  /\ loc' = [loc EXCEPT ![t] = NoLoc]
  /\ chat' = [chat EXCEPT ![t] = <<>>]
  /\ calls' = [calls EXCEPT ![t] = <<>>]
  /\ UNCHANGED <<url_cache, dirs, files, stores, input, output>>

\* The steps of a process_url handler in slot t.
PuStep(t) ==
  \/ \E text \in Texts : PuStart(t, text)
  \/ PuProbe(t)
  \/ \E r \in ProbeResults : PuProbeReturn(t, r)

\* The steps of a handle_download handler in slot t.
HdStep(t) ==
  \/ \E data \in Buttons : HdStart(t, data)
  \/ HdResolve(t)
  \/ \E d \in DirNames : HdEnterScratch(t, d)
  \/ HdScratchFails(t)
  \/ \E ok \in BOOLEAN, io_ok \in BOOLEAN :
       \E w \in Written(ok, <<t, loc[t].attempt>>) : HdFetchReturn(t, ok, w, io_ok)
  \/ HdUploadingReturn(t)
  \/ \E io_ok \in BOOLEAN : HdReadReturn(t, io_ok)
  \/ \E ok \in BOOLEAN : HdSendReturn(t, ok)
  \/ \E io_ok \in BOOLEAN : HdNoticeReturn(t, io_ok)
  \/ \E ok \in BOOLEAN : HdChunkSendReturn(t, ok)
  \/ \E io_ok \in BOOLEAN : HdSleepReturn(t, io_ok)
  \/ HdReturn(t)

\* One download call at a time, next to the process_url handlers of the
\* other slot.
Next ==
  \/ \E t \in Tasks : PuStep(t)
  \/ \E t \in Downloaders : HdStep(t)
  \/ \E t \in Tasks : Reset(t)

Spec == Init /\ [][Next]_vars

(***************************************************************************)
(* Two download calls at a time.  Both slots take messages and callback    *)
(* queries; mkdtemp has two names to pick from; one URL, one button and    *)
(* fewer outcomes of a fetch keep the state space small.                   *)
(***************************************************************************)
DirNamesTwo == {"tmpA", "tmpB"}

\* The buttons of the keyboard shown for TextYoutube.
ButtonsTwo == {<<"dl", "high", IdOf[StripOf[TextYoutube]]>>}

\* A fetch that raised leaves nothing or a partial file; one that returned
\* leaves nothing, a file sent whole, or a file sent in two chunks.
WrittenTwo(ok, by) ==
  {w \in Written(ok, by) :
     \A f \in w : f.name # NameHidden /\ f.size \in {1, MAX_FILE_SIZE, 2 * CHUNK_SIZE}}

InitTwo ==
  /\ url_cache = [i \in Ids |-> NoUrl]
  /\ dirs = {}
  /\ files = [d \in DirNamesTwo |-> {}]
  /\ pc = [t \in Tasks |-> "idle"]
  /\ loc = [t \in Tasks |-> NoLoc]
  /\ chat = [t \in Tasks |-> <<>>]
  /\ calls = [t \in Tasks |-> <<>>]
  /\ stores = [i \in Ids |-> NoUrl]
  /\ input = <<>>
  /\ output = <<>>

PuStepTwo(t) ==
  \/ PuStart(t, TextYoutube)
  \/ PuProbe(t)
  \/ PuProbeReturn(t, "info")

HdStepTwo(t) ==
  \/ \E data \in ButtonsTwo : HdStart(t, data)
  \/ HdResolve(t)
  \/ \E d \in DirNamesTwo : HdEnterScratch(t, d)
  \/ \E ok \in BOOLEAN, io_ok \in BOOLEAN :
       \E w \in WrittenTwo(ok, <<t, loc[t].attempt>>) : HdFetchReturn(t, ok, w, io_ok)
  \/ HdUploadingReturn(t)
  \/ \E io_ok \in BOOLEAN : HdReadReturn(t, io_ok)
  \/ \E ok \in BOOLEAN : HdSendReturn(t, ok)
  \/ \E io_ok \in BOOLEAN : HdNoticeReturn(t, io_ok)
  \/ \E ok \in BOOLEAN : HdChunkSendReturn(t, ok)
  \/ \E io_ok \in BOOLEAN : HdSleepReturn(t, io_ok)
  \/ HdReturn(t)

NextTwo ==
  \/ \E t \in Tasks : PuStepTwo(t)
  \/ \E t \in Tasks : HdStepTwo(t)
  \/ \E t \in Tasks : Reset(t)

SpecTwo == InitTwo /\ [][NextTwo]_vars

(***************************************************************************)
(* One slot on its own, with the calls it awaits returning in the end.     *)
(* A callback query may carry any data that starts with "dl:" (line 417),  *)
(* so also a quality that no button of the keyboard has.                   *)
(***************************************************************************)
AnyButtons == Buttons \cup {<<"dl", "other", id>> : id \in Ids}

\* The steps of a handle_download call that has started.
HdRuns(t) == pc[t] # "idle" /\ HdStep(t)

NextFair ==
  \/ \E t \in Downloaders : PuStep(t)
  \/ \E t \in Downloaders : \E data \in AnyButtons : HdStart(t, data)
  \/ \E t \in Downloaders : HdRuns(t)
  \/ \E t \in Downloaders : Reset(t)

\* Every awaited call of a started download returns: the coroutine is
\* resumed as long as it is not over.
SpecFair ==
  /\ Init
  /\ [][NextFair]_vars
  /\ \A t \in Downloaders : WF_vars(HdRuns(t))

(***************************************************************************)
(* The pure functions, called on their own.  A call takes its argument     *)
(* from a set of texts built from parts, and output collects what the      *)
(* calls returned.                                                         *)
(***************************************************************************)
handler_vars == <<url_cache, dirs, files, pc, loc, chat, calls, stores>>

\* Schemes a text may start with, in several letter cases, or none.
UrlSchemes ==
  { <<"h","t","t","p",":","/","/">>,
    <<"h","t","t","p","s",":","/","/">>,
    <<"f","t","p",":","/","/">>,
    <<"H","T","T","P",":","/","/">>,
    <<"H","t","t","p","s",":","/","/">>,
    <<>> }

\* What follows the scheme up to the first "/": a host, with userinfo and port,
\* of a supported platform or not, or nothing.
UrlHosts ==
  { <<"y","o","u","t","u","b","e",".","c","o","m">>,
    <<"Y","o","u","T","u","b","e",".","C","O","M">>,
    <<"e","x","a","m","p","l","e",".","o","r","g">>,
    <<"n","e","t","f","l","i","x",".","c","o","m">>,
    <<"u","s","e","r","@","f","b",".","w","a","t","c","h",":","8","0">>,
    <<"m",".","t","i","k","t","o","k",".","c","o","m",".","e","v","i","l",".","n","e","t">>,
    <<"w","w","w",".">>,
    <<>> }

\* The rest: a path, a query, a second "://" further on.
UrlTails ==
  { <<>>,
    <<"/">>,
    <<"/","w","a","t","c","h","?","u","=","h","t","t","p","s",":","/","/","y","o","u","t","u",".","b","e","/","x">>,
    <<"?","u","=","v","i","m","e","o",".","c","o","m">>,
    <<"/","x",":","/","/","v","i","m","e","o",".","c","o","m","/","1">> }

UrlInputs ==
  {s \o w \o h \o r : s \in UrlSchemes, w \in {<<>>, <<"w","w","w",".">>},
                      h \in UrlHosts, r \in UrlTails}

InitValid ==
  /\ NoHandlers
  /\ input \in UrlInputs
  /\ output = <<>>

\* is_valid_url(input)
CallIsValidUrl ==
  /\ output = <<>>
  /\ output' = <<is_valid_url(input)>>
  /\ UNCHANGED <<handler_vars, input>>

NextValid == CallIsValidUrl

SpecValid == InitValid /\ [][NextValid]_vars

(***************************************************************************)
(* detect_platform on its own.                                             *)
(***************************************************************************)
\* What a URL names as its host: every domain of the chain, in upper case
\* too, and hosts of no rule.
UrlMentions ==
  { <<"y","o","u","t","u","b","e",".","c","o","m">>,
    <<"y","o","u","t","u",".","b","e">>,
    <<"f","a","c","e","b","o","o","k",".","c","o","m">>,
    <<"f","b",".","w","a","t","c","h">>,
    <<"i","n","s","t","a","g","r","a","m",".","c","o","m">>,
    <<"t","i","k","t","o","k",".","c","o","m">>,
    <<"v","m",".","t","i","k","t","o","k",".","c","o","m">>,
    <<"t","w","i","t","t","e","r",".","c","o","m">>,
    <<"x",".","c","o","m">>,
    <<"r","e","d","d","i","t",".","c","o","m">>,
    <<"v",".","r","e","d","d",".","i","t">>,
    <<"v","i","m","e","o",".","c","o","m">>,
    <<"d","a","i","l","y","m","o","t","i","o","n",".","c","o","m">>,
    <<"t","w","i","t","c","h",".","t","v">>,
    <<"s","o","u","n","d","c","l","o","u","d",".","c","o","m">>,
    <<"t","e","r","a","b","o","x",".","c","o","m">>,
    <<"l","i","k","e","e",".","c","o","m">>,
    <<"k","w","a","i",".","c","o","m">>,
    <<"b","i","l","i","b","i","l","i",".","c","o","m">>,
    <<"p","i","n","t","e","r","e","s","t",".","c","o","m">>,
    <<"p","i","n",".","i","t">>,
    <<"r","u","t","u","b","e",".","r","u">>,
    <<"o","k",".","r","u">>,
    <<"w","h","a","t","s","a","p","p",".","c","o","m">>,
    <<"e","x","a","m","p","l","e",".","o","r","g">>,
    <<"Y","o","u","T","u",".","B","e">>,
    <<"n","e","t","f","l","i","x",".","c","o","m">>,
    <<"t",".","m","e">> }

\* What its path names: nothing, or a domain of an earlier or a later rule.
PathMentions ==
  { <<>>,
    <<"w","a","t","c","h">>,
    <<"y","o","u","t","u","b","e",".","c","o","m">>,
    <<"F","B",".","W","a","t","c","h">>,
    <<"v",".","r","e","d","d",".","i","t">>,
    <<"o","k",".","r","u">>,
    <<"w","h","a","t","s","a","p","p",".","c","o","m">>,
    <<"x",".","c","o","m">> }

PlatformInputs ==
  {<<"h","t","t","p","s",":","/","/">> \o a \o <<"/">> \o b :
     a \in UrlMentions, b \in PathMentions}

InitPlatform ==
  /\ NoHandlers
  /\ input \in PlatformInputs
  /\ output = <<>>

\* detect_platform(input), called once more on the same URL
CallDetectPlatform ==
  /\ Len(output) < 2
  /\ output' = Append(output, detect_platform(input))
  /\ UNCHANGED <<handler_vars, input>>

NextPlatform == CallDetectPlatform

SpecPlatform == InitPlatform /\ [][NextPlatform]_vars

(***************************************************************************)
(* sanitize_filename on its own.                                           *)
(***************************************************************************)
\* n times the character c
RECURSIVE Rep(_, _)
Rep(c, n) == IF n = 0 THEN <<>> ELSE <<c>> \o Rep(c, n - 1)

\* Lengths of the stem of a file name, around 70 and 80 and the 91 of a
\* name of 95 characters with ".mp4".
StemLens == {0, 1, 60, 69, 70, 71, 76, 77, 78, 80, 81, 91}

\* Extensions: none, those of yt-dlp's files, a long one.
Extensions ==
  { <<>>,
    <<".","m","p","4">>,
    <<".","w","e","b","m">>,
    <<".","m","p","4",".","p","a","r","t">>,
    <<".","d","e","s","c","r","i","p","t","i","o","n">> }

\* Names "<stem><removed characters><extension>", with or without a leading
\* blank; the last extension is a dot and 85 letters.
FileNameInputs ==
  {pad \o Rep("a", n) \o junk \o x :
     pad \in {<<>>, <<" ">>}, n \in StemLens, junk \in {<<>>, <<"?", "*">>},
     x \in Extensions \cup {<<".">> \o Rep("b", 85)}}

InitName ==
  /\ NoHandlers
  /\ input \in FileNameInputs
  /\ output = <<>>

\* sanitize_filename(input)
CallSanitizeFilename ==
  /\ output = <<>>
  /\ output' = <<sanitize_filename(input)>>
  /\ UNCHANGED <<handler_vars, input>>

NextName == CallSanitizeFilename

SpecName == InitName /\ [][NextName]_vars

(***************************************************************************)
(* What is checked of the model.                                           *)
(***************************************************************************)
IsUpload(e) == e.kind # "text"

IsDocument(e) == e.kind = "document"

\* The files handler t has delivered, and the chunks among them.
Uploads(t) == SelectSeq(chat[t], IsUpload)

Docs(t) == SelectSeq(chat[t], IsDocument)

Said(t, what) == \E i \in 1..Len(chat[t]) : chat[t][i].kind = "text" /\ chat[t][i].what = what

LastSaid(t) == IF chat[t] = <<>> THEN "" ELSE chat[t][Len(chat[t])].what

InDownload(t) == loc[t].handler = "handle_download"

\* The fallback loop of t is over.
LoopOver(t) == InDownload(t) /\ loc[t].temp_dir # "" /\ pc[t] # "hd_fetching"

AllRaised(t) == \A i \in 1..Len(calls[t]) : calls[t][i].result = "raised"

\* C1: in one call the fetch attempts are, whatever the outcomes of the
\* attempts, the shortest prefix of [primary selector, "best", "worst"] that
\* ends at the first success, and the whole list when all fail: in order,
\* none skipped, none after a success.
C1_AttemptsAreShortestPrefix ==
  \A t \in Tasks :
    InDownload(t) =>
      LET a == calls[t]
          L == <<format_selector(loc[t].quality), "best", "worst">>
      IN  /\ Len(a) <= 3
          /\ \A i \in 1..Len(a) : a[i].op = "download" /\ a[i].opts.format = L[i]
          /\ \A i \in 1..(Len(a) - 1) : a[i].result = "raised"
          /\ pc[t] = "hd_fetching" => a # <<>> /\ a[Len(a)].result = "running"
          /\ LoopOver(t) =>
               /\ a # <<>>
               /\ \/ a[Len(a)].result = "ok"
                  \/ Len(a) = 3 /\ a[3].result = "raised"

\* A and B failed, C succeeded: the attempts are A, B, C.
C1_Witness ==
  \E t \in Tasks :
    /\ LoopOver(t)
    /\ Len(calls[t]) = 3
    /\ calls[t][1].result = "raised"
    /\ calls[t][2].result = "raised"
    /\ calls[t][3].result = "ok"
    /\ calls[t][3].opts.format = "worst"

\* C2: once a call has returned, the scratch directory it created does not
\* exist, on every way out of the with block.
C2_ScratchRemovedOnReturn ==
  \A t \in Tasks :
    (InDownload(t) /\ pc[t] = "done" /\ loc[t].temp_dir # "") =>
      /\ loc[t].temp_dir \notin dirs
      /\ files[loc[t].temp_dir] = {}

\* A call that failed while sending a chunk has returned.
C2_Witness ==
  \E t \in Tasks :
    /\ InDownload(t) /\ pc[t] = "done" /\ loc[t].temp_dir # ""
    /\ LastSaid(t) = "DownloadFailed"
    /\ Docs(t) # <<>>

\* C3: when every selector of the list fails the call reports
\* AllFormatsExhausted and ends: it never announces an upload, sends no
\* file and no chunk, and its scratch directory is removed on return.
C3_AllFailedEndsExhausted ==
  \A t \in Tasks :
    (InDownload(t) /\ Len(calls[t]) = 3 /\ AllRaised(t)) =>
      /\ pc[t] \in {"hd_final_msg", "done"}
      /\ LastSaid(t) = "AllFormatsExhausted"
      /\ ~Said(t, "Uploading")
      /\ Uploads(t) = <<>>
      /\ pc[t] = "done" => loc[t].temp_dir \notin dirs

\* All three attempts failed and the
\* call has returned.
C3_Witness ==
  \E t \in Tasks :
    /\ InDownload(t) /\ Len(calls[t]) = 3 /\ AllRaised(t)
    /\ pc[t] = "done"

\* C4: when an attempt succeeded and the directory holds no file other than
\* dot files, the call reports NoOutputProduced, which is not the report of
\* exhausted formats, and delivers nothing.
C4_NoOutputIsItsOwnFailure ==
  \A t \in Tasks :
    /\ (InDownload(t) /\ loc[t].listed /\ loc[t].temp_dir \in dirs
          /\ \A f \in files[loc[t].temp_dir] : Head(f.name) = ".") =>
         /\ pc[t] = "hd_final_msg"
         /\ LastSaid(t) = "NoOutputProduced"
         /\ Uploads(t) = <<>>
         /\ ~Said(t, "AllFormatsExhausted")
         /\ ~Said(t, "Uploading")
    /\ (InDownload(t) /\ loc[t].listed /\ loc[t].downloaded_files = <<>>) =>
         /\ pc[t] \in {"hd_final_msg", "done"}
         /\ LastSaid(t) = "NoOutputProduced"
         /\ LastSaid(t) # "AllFormatsExhausted"
         /\ Uploads(t) = <<>>

\* A successful attempt left only a dot file.
C4_Witness ==
  \E t \in Tasks :
    /\ InDownload(t) /\ loc[t].listed /\ loc[t].temp_dir \in dirs
    /\ files[loc[t].temp_dir] # {}
    /\ \A f \in files[loc[t].temp_dir] : Head(f.name) = "."
    /\ LastSaid(t) = "NoOutputProduced"

\* C5: the size alone decides the shape.  A file of at most 50 MiB (50 MiB
\* included) goes out in one send of the whole file and never as chunks; a
\* larger one goes out as chunks and never whole.
C5_ShapeBySize ==
  \A t \in Tasks :
    (InDownload(t) /\ loc[t].listed /\ loc[t].downloaded_files # <<>>) =>
      LET S == loc[t].file_size
          u == Uploads(t)
      IN  /\ loc[t].temp_dir \in dirs =>
                \E f \in files[loc[t].temp_dir] : f.name = loc[t].file_name /\ f.size = S
          /\ S <= 50 * 1024 * 1024 =>
                /\ Len(u) <= 1
                /\ \A i \in 1..Len(u) :
                      u[i].kind \in {"video", "audio"} /\ u[i].from = 0 /\ u[i].to = S
                /\ LastSaid(t) = "Deleted" => Len(u) = 1
                /\ ~Said(t, "LargeFileNotice")
                /\ pc[t] \notin {"hd_notice", "hd_chunk_sending", "hd_chunk_sleep"}
          /\ S > 50 * 1024 * 1024 =>
                /\ \A i \in 1..Len(u) :
                      u[i].kind = "document" /\ ~(u[i].from = 0 /\ u[i].to = S)
                /\ pc[t] \notin {"hd_reading", "hd_sending"}

\* A file of exactly 50 MiB was delivered in one send.
C5_Witness ==
  \E t \in Tasks :
    /\ InDownload(t) /\ loc[t].file_size = 50 * 1024 * 1024
    /\ LastSaid(t) = "Deleted"
    /\ Len(Uploads(t)) = 1

\* C6: a chunked delivery of a file of S > 50 MiB bytes that completes has
\* sent ceil(S / 45 MiB) chunks, each but the last of 45 MiB, the last not
\* empty and at most 45 MiB, and the chunks in order are the bytes of the
\* file from the first to the last, each once.
C6_ChunksCoverTheFile ==
  \A t \in Tasks :
    (InDownload(t) /\ loc[t].file_size > 50 * 1024 * 1024 /\ LastSaid(t) = "Deleted") =>
      LET S == loc[t].file_size
          C == 45 * 1024 * 1024
          d == Docs(t)
          n == Len(d)
      IN  /\ n = (S + C - 1) \div C
          /\ \A k \in 1..(n - 1) : d[k].to - d[k].from = C
          /\ d[n].to - d[n].from > 0
          /\ d[n].to - d[n].from <= C
          /\ d[1].from = 0
          /\ \A k \in 1..(n - 1) : d[k + 1].from = d[k].to
          /\ d[n].to = S

\* A file of two whole chunks and one byte went out in three chunks.
C6_Witness ==
  \E t \in Tasks :
    /\ InDownload(t) /\ LastSaid(t) = "Deleted"
    /\ loc[t].file_size = 2 * (45 * 1024 * 1024) + 1
    /\ Len(Docs(t)) = 3

\* The number a chunk name ends with, and the name without it.
PartIndex(name) ==
  LET n == Len(name)
  IN  100 * (Ord(name[n - 2]) - 48) + 10 * (Ord(name[n - 1]) - 48) + (Ord(name[n]) - 48)

PartBase(name) == SubSeq(name, 1, Len(name) - 8)

PartMark(name) == SubSeq(name, Len(name) - 7, Len(name) - 3)

\* C7: the chunks of a delivery go out one after the other in index order
\* from 0: the send of chunk 0 starts after the notice, the send of chunk
\* k+1 starts only from the sleep that follows the completed send of chunk
\* k, and the k-th chunk is named <sanitized name>.part<k in 3 digits>.
C7_ChunksInOrder ==
  [][\A t \in Tasks :
       /\ (pc'[t] = "hd_chunk_sending" /\ pc[t] # "hd_chunk_sending") =>
            /\ pc[t] \in {"hd_notice", "hd_chunk_sleep"}
            /\ loc'[t].chunk_num = Len(Docs(t))
            /\ loc'[t].chunk_num = 0 <=> pc[t] = "hd_notice"
            /\ chat'[t] = chat[t]
       /\ (pc[t] = "hd_chunk_sending" /\ pc'[t] = "hd_chunk_sending") =>
            /\ loc'[t] = loc[t]
            /\ chat'[t] = chat[t]
       /\ (pc'[t] # "idle" /\ Len(SelectSeq(chat'[t], IsDocument)) # Len(Docs(t))) =>
            LET k == Len(Docs(t))
                e == chat'[t][Len(chat'[t])]
            IN  /\ pc[t] = "hd_chunk_sending"
                /\ pc'[t] = "hd_chunk_sleep"
                /\ chat'[t] = Append(chat[t], e)
                /\ e.kind = "document"
                /\ Len(e.name) = Len(loc[t].filename) + 8
                /\ PartBase(e.name) = sanitize_filename(loc[t].file_name)
                /\ PartMark(e.name) = <<".","p","a","r","t">>
                /\ PartIndex(e.name) = k
                /\ e.from = k * (45 * 1024 * 1024)
  ]_vars

\* Two chunks are out and the send of the third is under way.
C7_Witness ==
  \E t \in Tasks :
    /\ pc[t] = "hd_chunk_sending"
    /\ Len(Docs(t)) = 2
    /\ PartIndex(Docs(t)[2].name) = 1

\* C8: when the send of chunk k fails, the k chunks sent before it stay as
\* they are, the call reports DownloadFailed, and from then on it sends
\* nothing more.
C8_FailedChunkEndsDelivery ==
  [][\A t \in Tasks :
       /\ (pc[t] = "hd_chunk_sending" /\ pc'[t] # "hd_chunk_sending"
             /\ pc'[t] # "hd_chunk_sleep") =>
            /\ pc'[t] = "hd_final_msg"
            /\ chat'[t] = Append(chat[t], Text("DownloadFailed"))
            /\ Len(Docs(t)) = loc[t].chunk_num
       /\ (pc[t] = "hd_chunk_sending" /\ pc'[t] = "hd_chunk_sleep") =>
            Len(SelectSeq(chat'[t], IsDocument)) = Len(Docs(t)) + 1
       /\ (InDownload(t) /\ LastSaid(t) = "DownloadFailed") =>
            \/ chat'[t] = chat[t] /\ pc'[t] \in {"hd_final_msg", "done"}
            \/ pc[t] = "done" /\ pc'[t] = "idle"
  ]_vars

\* The send of the second chunk failed after the first was delivered.
C8_Witness ==
  \E t \in Tasks :
    /\ InDownload(t) /\ pc[t] = "done"
    /\ LastSaid(t) = "DownloadFailed"
    /\ Len(Docs(t)) = 1
    /\ loc[t].pos > Docs(t)[1].to

\* C9: a submission whose URL passed validation ends with the quality
\* keyboard of the stored id on offer, whatever the probe gave.
C9_ValidUrlGetsOptions ==
  \A t \in Tasks :
    (loc[t].handler = "process_url" /\ pc[t] = "done" /\ loc[t].url # NoUrl) =>
      LET e == chat[t][Len(chat[t])]
      IN  /\ chat[t] # <<>>
          /\ e.id = generate_url_id(loc[t].url)
          /\ e.id # NoId
          /\ e.what \in {"Analyzed", "ReadyForProcessing", "ReadyForDownload"}
          /\ calls[t][Len(calls[t])].result \in ProbeResults

\* The probe raised and the keyboard is on offer.
C9_Witness ==
  \E t \in Tasks :
    /\ loc[t].handler = "process_url" /\ pc[t] = "done"
    /\ calls[t] # <<>>
    /\ calls[t][Len(calls[t])].result = "raises"
    /\ chat[t][Len(chat[t])].id # NoId

\* C10: right after store(url) the returned id resolves to url; an entry
\* changes only when a URL with that very id is stored, so stores and
\* resolves of other ids leave it alone; and the download handler resolves
\* an id to the entry as it is.
C10_StoreThenResolve ==
  [][\A t \in Tasks :
       /\ (pc[t] = "idle" /\ pc'[t] = "pu_analysis") =>
            /\ loc'[t].url_id = generate_url_id(loc'[t].url)
            /\ get_url(url_cache', loc'[t].url_id) = loc'[t].url
            /\ \A id \in Ids \ {loc'[t].url_id} : url_cache'[id] = url_cache[id]
       /\ (\A u \in Tasks : ~(pc[u] = "idle" /\ pc'[u] = "pu_analysis")) =>
            url_cache' = url_cache
       /\ (pc[t] = "hd_answer" /\ pc'[t] = "hd_starting") =>
            loc'[t].url = url_cache[loc[t].url_id]
       /\ (pc[t] = "hd_answer" /\ pc'[t] = "done") =>
            url_cache[loc[t].url_id] = NoUrl
  ]_vars

\* A stored URL is resolved by a download after a URL of another id was
\* stored.
C10_Witness ==
  \E t \in Tasks :
    /\ pc[t] = "hd_starting"
    /\ loc[t].url = url_cache[loc[t].url_id]
    /\ \E id \in Ids \ {loc[t].url_id} : url_cache[id] # NoUrl

\* C11: a quality selection whose id has no entry in the registry ends at
\* once with the unknown-handle text and has no other effect: no scratch
\* directory, no fetch attempt, nothing delivered, the registry as it was.
C11_UnknownIdOnlyReported ==
  [][\A t \in Tasks :
       (pc[t] = "hd_answer" /\ pc'[t] # "hd_answer"
          /\ url_cache[loc[t].url_id] = NoUrl) =>
         /\ pc'[t] = "done"
         /\ chat'[t] = <<Text("UnknownHandle")>>
         /\ calls'[t] = <<>>
         /\ loc'[t].temp_dir = ""
         /\ url_cache' = url_cache
         /\ dirs' = dirs
         /\ files' = files
  ]_vars

\* An id without entry was selected while another id has one.
C11_Witness ==
  \E t \in Tasks :
    /\ InDownload(t) /\ pc[t] = "done"
    /\ chat[t] = <<Text("UnknownHandle")>>
    /\ url_cache[loc[t].url_id] = NoUrl
    /\ \E id \in Ids : url_cache[id] # NoUrl

\* The text starts, in whatever letter case, with "http://" or "https://".
HasHttpScheme(url) ==
  \/ StartsWith(Lower(url), <<"h","t","t","p",":","/","/">>)
  \/ StartsWith(Lower(url), <<"h","t","t","p","s",":","/","/">>)

\* C12: is_valid_url returns False for every URL that lacks an http or
\* https scheme, whatever host it names.
C12_NoSchemeIsInvalid ==
  (output # <<>> /\ ~HasHttpScheme(input)) => output[1] = FALSE

\* An ftp URL of a supported host was validated.
C12_Witness ==
  /\ output # <<>>
  /\ StartsWith(input, <<"f","t","p",":","/","/","y","o","u","t","u","b","e",".","c","o","m">>)
  /\ output[1] = FALSE

\* The authority of a URL: what stands between the first "://" and the next
\* "/" (or the end); empty when the text has no "://".
Authority(url) ==
  LET at == {i \in 1..Len(url) : OccursAt(url, <<":", "/", "/">>, i)}
  IN  IF at = {} THEN <<>>
      ELSE RunNoSlash(url, (CHOOSE i \in at : \A j \in at : i <= j) + 3)

\* without one leading "www."
StripWww(a) ==
  IF StartsWith(Lower(a), <<"w","w","w",".">>) THEN SubSeq(a, 5, Len(a)) ELSE a

\* a contains, in whatever letter case, a string of SUPPORTED_PLATFORMS
NamesSupported(a) == \E p \in SUPPORTED_PLATFORMS : Contains(Lower(a), p)

\* C13 as stated: is_valid_url returns True for every URL whose authority
\* contains a supported domain, and for an http/https URL it returns True
\* only if the authority, after one leading "www." is stripped, contains
\* one.
C13_AsStated ==
  output # <<>> =>
    /\ NamesSupported(Authority(input)) => output[1] = TRUE
    /\ (HasHttpScheme(input) /\ output[1] = TRUE) =>
         NamesSupported(StripWww(Authority(input)))

\* C13, amended: for every URL that starts with "http://" or "https://" in
\* lower case and has a non-empty authority, is_valid_url returns True if
\* and only if the authority, after one leading "www." is stripped,
\* contains a supported domain in whatever letter case.
C13_SupportedIffAuthority ==
  (/\ output # <<>>
   /\ \/ StartsWith(input, <<"h","t","t","p",":","/","/">>)
      \/ StartsWith(input, <<"h","t","t","p","s",":","/","/">>)
   /\ Authority(input) # <<>>) =>
    (output[1] = TRUE <=> NamesSupported(StripWww(Authority(input))))

\* An https URL with "www.", an upper-case supported host and a path was
\* accepted, or one whose path alone names a supported host was refused.
C13_Witness ==
  /\ output # <<>>
  /\ \/ /\ StartsWith(input, <<"h","t","t","p","s",":","/","/","w","w","w",".","Y","o","u","T","u","b","e">>)
        /\ Len(input) > 24
        /\ output[1] = TRUE
     \/ /\ StartsWith(input, <<"h","t","t","p","s",":","/","/","e","x","a","m","p","l","e",".","o","r","g","/","w","a","t","c","h">>)
        /\ output[1] = FALSE

\* C14: a submission whose stripped text fails is_valid_url is rejected at
\* once with the invalid-URL text: the handler is over after that one
\* message, the registry has no new entry, no probe was started and no
\* quality keyboard was shown.
C14_InvalidTextOnlyRejected ==
  [][\A t \in Tasks :
       (/\ pc[t] = "idle"
        /\ loc'[t].handler = "process_url"
        /\ ~ValidOf[StripOf[loc'[t].text]]) =>
         /\ pc'[t] = "done"
         /\ chat'[t] = <<Text("InvalidUrl")>>
         /\ calls'[t] = <<>>
         /\ loc'[t].url_id = NoId
         /\ url_cache' = url_cache
  ]_vars

\* A text that names a supported host after the wrong scheme was rejected
\* while the registry holds the URL of another submission.
C14_Witness ==
  \E t \in Tasks :
    /\ loc[t].handler = "process_url" /\ pc[t] = "done"
    /\ loc[t].text = TextNoScheme
    /\ chat[t] = <<Text("InvalidUrl")>>
    /\ \E id \in Ids : url_cache[id] # NoUrl

\* The awaits of handle_download, and its end.
HdPcs ==
  {"hd_answer", "hd_starting", "hd_fetching", "hd_uploading_msg", "hd_reading",
   "hd_sending", "hd_notice", "hd_chunk_sending", "hd_chunk_sleep",
   "hd_final_msg", "done"}

\* The last thing a download call that is over has told its user.
HdOutcomes ==
  {"UnknownHandle", "AllFormatsExhausted", "NoOutputProduced", "DownloadFailed",
   "HandlerError", "Deleted"}

\* C15: every error of the extractor or the filesystem during a download
\* call (fetch, listing, size, read) is caught inside the call: the handler
\* goes on at one of its own awaits, and a call that is over has ended with
\* one of its outcome texts as the last message, a failure text in every
\* case but the completed delivery; with all attempts raised it is the
\* exhausted text, and after an error behind a successful fetch it is the
\* failure text of line 586.
C15_ErrorsEndClassified ==
  \A t \in Tasks :
    InDownload(t) =>
      /\ pc[t] \in HdPcs
      /\ pc[t] \in {"hd_final_msg", "done"} =>
           /\ LastSaid(t) \in HdOutcomes
           /\ (calls[t] # <<>> /\ AllRaised(t)) => LastSaid(t) = "AllFormatsExhausted"
           /\ (loc[t].success /\ ~loc[t].listed) => LastSaid(t) = "DownloadFailed"
           /\ LastSaid(t) = "Deleted" => Uploads(t) # <<>>

\* The listing or the size of a fetched file raised: the call ended with
\* the failure text, and the handler of the other slot is at its probe.
C15_Witness ==
  \E t \in Tasks :
    /\ InDownload(t) /\ pc[t] = "done"
    /\ loc[t].success /\ ~loc[t].listed
    /\ calls[t][1].result = "raised"
    /\ LastSaid(t) = "DownloadFailed"
    /\ \E u \in Tasks \ {t} : pc[u] = "pu_probing"

\* Handler t is inside the with block of lines 485-586.
InBlock(t) ==
  /\ InDownload(t)
  /\ pc[t] \in {"hd_fetching", "hd_uploading_msg", "hd_reading", "hd_sending",
                "hd_notice", "hd_chunk_sending", "hd_chunk_sleep", "hd_final_msg"}

\* C16: however two download calls interleave, each works in a scratch
\* directory of its own: the directory exists for as long as the call is
\* inside its with block (the other call ending does not remove it), no
\* other call is in the same directory, every file in it was written by
\* the call's own attempts, and the file the call measures and delivers
\* is one of those.
C16_OwnScratchDirectory ==
  \A t \in Tasks :
    InBlock(t) =>
      /\ loc[t].temp_dir \in dirs
      /\ \A u \in Tasks \ {t} : InBlock(u) => loc[u].temp_dir # loc[t].temp_dir
      /\ \A f \in files[loc[t].temp_dir] : f.by[1] = t
      /\ loc[t].file_name # <<>> =>
           \E f \in files[loc[t].temp_dir] :
             /\ f.name = loc[t].file_name
             /\ f.size = loc[t].file_size
             /\ f.by[1] = t
      /\ \A i \in 1..Len(Uploads(t)) : Uploads(t)[i].to <= loc[t].file_size

\* One call is over and its directory gone while the other, started in
\* between, is sending the file it fetched.
C16_Witness ==
  \E t \in Tasks, u \in Tasks :
    /\ t # u
    /\ InDownload(t) /\ pc[t] = "done" /\ LastSaid(t) = "Deleted"
    /\ loc[t].temp_dir \notin dirs
    /\ InBlock(u) /\ pc[u] = "hd_sending"
    /\ loc[u].temp_dir # loc[t].temp_dir
    /\ files[loc[u].temp_dir] # {}

\* C17: however the handlers interleave, the registry holds for every id
\* the URL of the latest store that returned the id, and nothing for an id
\* no store returned; a resolve gives that URL, or not-found; and a store
\* leaves the entries of all other ids as they were.
C17_RegistryHoldsLatestStores ==
  [][/\ url_cache = stores
     /\ url_cache' = stores'
     /\ \A t \in Tasks :
          /\ (pc[t] = "hd_answer" /\ pc'[t] = "hd_starting") =>
               /\ stores[loc[t].url_id] # NoUrl
               /\ loc'[t].url = stores[loc[t].url_id]
          /\ (pc[t] = "hd_answer" /\ pc'[t] = "done") =>
               stores[loc[t].url_id] = NoUrl
          /\ (pc[t] = "idle" /\ pc'[t] = "pu_analysis") =>
               \A id \in Ids \ {loc'[t].url_id} : url_cache'[id] = url_cache[id]
  ]_vars

\* A download resolved its id to the URL the handler of the other slot
\* stored, an id that another valid URL of the model has too.
C17_Witness ==
  \E t \in Tasks, u \in Tasks :
    /\ t # u
    /\ pc[t] = "hd_starting"
    /\ loc[u].handler = "process_url" /\ loc[u].url # NoUrl
    /\ loc[u].url_id = loc[t].url_id
    /\ loc[t].url = loc[u].url
    /\ \E x \in Urls \ {loc[u].url} : IdOf[x] = loc[t].url_id /\ ValidOf[x]

\* C18: every fetch attempt of a download call, the "best" and "worst"
\* fallbacks included, is made for the resolved URL with the headers of
\* that URL's platform tag: the desktop User-Agent for facebook, the mobile
\* one for tiktok and instagram, no http_headers for any other tag.
C18_AttemptsCarryPlatformHeaders ==
  \A t \in Tasks :
    InDownload(t) =>
      \A i \in 1..Len(calls[t]) :
        LET tag == PlatformOf[loc[t].url]
            h == calls[t][i].opts.http_headers
        IN  /\ calls[t][i].url = loc[t].url
            /\ tag = "facebook" => h = DesktopAgent
            /\ tag \in {"tiktok", "instagram"} => h = MobileAgent
            /\ tag \notin {"facebook", "tiktok", "instagram"} => h = ""

\* The third attempt for a tiktok URL, with "worst", has the mobile
\* User-Agent.
C18_Witness ==
  \E t \in Tasks :
    /\ InDownload(t)
    /\ Len(calls[t]) = 3
    /\ PlatformOf[loc[t].url] = "tiktok"
    /\ calls[t][3].opts.format = "worst"
    /\ calls[t][3].opts.http_headers = MobileAgent

\* C19: detect_platform returns the tag of the first rule of the chain,
\* in its order, one of whose domains occurs in the lower-cased URL, and
\* "default" when no rule has one; a second call on the same URL returns
\* the same tag.
C19_FirstMatchingRule ==
  output # <<>> =>
    LET low == Lower(input)
        Hit(i) == \E k \in 1..Len(PlatformRules[i].domains) :
                    Contains(low, PlatformRules[i].domains[k])
    IN  /\ \A i \in 1..Len(PlatformRules) :
             (Hit(i) /\ \A j \in 1..(i - 1) : ~Hit(j)) =>
               output[1] = PlatformRules[i].tag
        /\ (\A i \in 1..Len(PlatformRules) : ~Hit(i)) => output[1] = "default"
        /\ \A k \in 1..Len(output) : output[k] = output[1]

\* A URL of a facebook host whose path names youtube.com was classified
\* twice: youtube, the earlier rule, both times.
C19_Witness ==
  /\ Len(output) = 2
  /\ StartsWith(input, <<"h","t","t","p","s",":","/","/","f","b",".","w","a","t","c","h","/","y","o","u","t","u","b","e">>)
  /\ output[1] = "youtube"

\* C20 as stated: a name whose cleaned form is longer than 80 characters
\* comes out as the first 70 characters of the cleaned form, "..." and the
\* extension; 77 characters for a cleaned name of 95 characters that ends
\* in ".mp4"; and never more than 80 characters.
C20_TruncatedWithinLimit ==
  (output # <<>> /\ Len(Cleaned(input)) > 80) =>
    LET c == Cleaned(input)
        ext == splitext(c)[2]
    IN  /\ output[1] = SubSeq(c, 1, 70) \o <<".", ".", ".">> \o ext
        /\ (Len(c) = 95 /\ ext = <<".", "m", "p", "4">>) => Len(output[1]) = 77
        /\ Len(output[1]) <= 80

\* The awaits of a download call after its fallback loop.
AfterLoop ==
  {"hd_uploading_msg", "hd_reading", "hd_sending", "hd_notice",
   "hd_chunk_sending", "hd_chunk_sleep", "hd_final_msg"}

\* The texts a download call that went through its loop ends with: the
\* completed delivery, or a failure.
EndTexts == {"Deleted", "AllFormatsExhausted", "NoOutputProduced", "DownloadFailed"}

\* C21: a download call that has started fetching ends, when every fetch
\* and send it awaits returns, with the delivery completed or a failure
\* reported.  It makes at most 3 attempts, the i-th with the i-th entry of
\* the list, so that no entry is tried a second time (and no selector, for
\* the qualities of the keyboard, whose three entries differ); and once
\* out of the loop it does not fetch again.
C21_CallRunsToItsEnd ==
  /\ [][\A t \in Downloaders :
          /\ InDownload(t)' =>
               LET a == calls'[t]
                   q == loc'[t].quality
               IN  /\ Len(a) <= 3
                   /\ \A i \in 1..Len(a) : a[i].opts.format = formats_to_try(q)[i]
                   /\ q \in Qualities =>
                        \A i, j \in 1..Len(a) :
                          a[i].opts.format = a[j].opts.format => i = j
          /\ (pc[t] \in AfterLoop) =>
               /\ pc'[t] \in AfterLoop \cup {"done"}
               /\ calls'[t] = calls[t]
     ]_vars
  /\ \A t \in Downloaders :
       (pc[t] = "hd_fetching") ~> (pc[t] = "done" /\ LastSaid(t) \in EndTexts)

\* A call with a quality of no button made its three attempts, "best"
\* being the first and the second entry of its list, delivered a file in
\* chunks and is over.
C21_Witness ==
  \E t \in Downloaders :
    /\ InDownload(t) /\ pc[t] = "done"
    /\ loc[t].quality = "other"
    /\ Len(calls[t]) = 3
    /\ Len(Docs(t)) >= 2
    /\ LastSaid(t) = "Deleted"

\* C22 as stated: when the loop of a call has ended with a success and the
\* listing found a file to deliver, the scratch directory holds exactly
\* one file whose name does not start with a dot, and the file the call
\* measures and delivers is the one the successful attempt, the last one,
\* wrote, not one an earlier attempt of the call left behind.
C22_DeliversTheFetchedFile ==
  \A t \in Tasks :
    (InBlock(t) /\ loc[t].success /\ loc[t].file_name # <<>>) =>
      LET dir == files[loc[t].temp_dir]
      IN  /\ Cardinality(downloaded_files(dir)) = 1
          /\ \E f \in dir :
               /\ f.name = loc[t].file_name
               /\ f.size = loc[t].file_size
               /\ f.by = <<t, Len(calls[t])>>

====
